---- MODULE Spec2Model ----
(***************************************************************************)
(* Model of src/app.py, the Streamlit frequency-monitor dashboard.         *)
(*                                                                         *)
(* One run of the script is one refresh cycle: the sidebar widgets are     *)
(* read, the device identifiers are discovered (filesystem glob or S3      *)
(* listing), one column per device is created, each device is loaded and   *)
(* rendered into its column, and the script sleeps and calls st.rerun().   *)
(*                                                                         *)
(* The page is modelled as the sequence of elements written to the main    *)
(* container (main) and the sequence of elements written to each column    *)
(* (cols[k]).  Python's 0-based enumerate index is the 1-based index i.    *)
(***************************************************************************)
EXTENDS Integers, Sequences, FiniteSets, TLC

\* ------------------------------------------------------------------ bounds
\* Largest number of files / objects one listing returns.
MaxDevices == 2

\* Suffixes found between the last '_' and the first '.' of a listed name
\* recent_data_device_<suffix>.csv, as sequences of characters.
Names == {<<"1">>, <<"2">>, <<"1", "0">>, <<"x">>}

\* Values of the delay-threshold slider that are explored (60 is its default).
Thresholds == {60, 61}

\* Ages in seconds of the last sample (now - last_time) that are explored.
Ages == {60, 61}

\* Latest filtered-frequency values that are explored.
Freqs == {1, 2, 3}

\* (min_freq, max_freq) pairs of the bounds files that are explored.
BoundsPairs == {<<2, 2>>, <<1, 3>>}

\* ------------------------------------------------------- value encodings
\* Python's None, as returned by load_data for data or bounds.
None == [kind |-> "None"]

\* One device's files as found when load_data runs.
\*   dkind: "absent"      no sample file / NoSuchKey
\*          "unreachable" read error (S3: ClientError other than NoSuchKey,
\*                        or no S3 client)
\*          "malformed"   pd.read_csv / pd.to_datetime raises
\*          "empty"       header only, no rows
\*          "nofiltered"  rows, but no freq_filtered column
\*          "nofreq"      rows, but no freq column
\*          "ok"          rows with time, freq, freq_filtered
\*   bkind: "absent", "unreachable", "malformed",
\*          "empty" (header only), "notz" (no usable timezone column), "ok"
F(dk, v, a, bk, lo, hi) ==
    [dkind |-> dk, freq |-> v, age |-> a, bkind |-> bk, min |-> lo, max |-> hi]

DeviceFiles ==
    {F(dk, 0, 0, "absent", 0, 0) :
        dk \in {"absent", "unreachable", "malformed", "empty"}}
    \cup {F(dk, 0, 0, "ok", 2, 2) : dk \in {"absent", "empty"}}
    \cup {F("nofiltered", 0, 60, "ok", 2, 2), F("nofreq", 3, 60, "ok", 2, 2)}
    \cup {F("ok", v, a, "ok", b[1], b[2]) :
            v \in Freqs, a \in Ages, b \in BoundsPairs}
    \cup {F("ok", v, a, "absent", 0, 0) : v \in Freqs, a \in Ages}
    \cup {F("ok", 2, 60, bk, 2, 2) :
            bk \in {"unreachable", "malformed", "empty", "notz"}}

\* ------------------------------------------------ device-name parsing
Digits == {"0", "1", "2"}

DigitVal(c) == CASE c = "0" -> 0 [] c = "1" -> 1 [] c = "2" -> 2

\* int(s) succeeds: s is a non-empty string of decimal digits.
IntOk(s) == Len(s) > 0 /\ \A k \in 1..Len(s) : s[k] \in Digits

\* int(s) for a string of decimal digits.
RECURSIVE ParseInt(_)
ParseInt(s) ==
    IF Len(s) = 0 THEN 0
    ELSE 10 * ParseInt(SubSeq(s, 1, Len(s) - 1)) + DigitVal(s[Len(s)])

\* [int(f.split('_')[-1].split('.')[0]) for f in device_files]
ParseAll(l) == [k \in 1..Len(l) |-> ParseInt(l[k])]

AllParse(l) == \A k \in 1..Len(l) : IntOk(l[k])

\* Byte value of a character of an object key.
Code(c) ==
    CASE c = "." -> 46 [] c = "0" -> 48 [] c = "1" -> 49 [] c = "2" -> 50
      [] c = "x" -> 120

\* The part of the key that differs between devices: <suffix>.csv
KeyTail(s) == s \o <<".">>

\* Byte-wise lexicographic order, the order list_objects_v2 returns keys in.
RECURSIVE LexLess(_, _)
LexLess(a, b) ==
    IF Len(b) = 0 THEN FALSE
    ELSE IF Len(a) = 0 THEN TRUE
    ELSE IF Code(Head(a)) # Code(Head(b)) THEN Code(Head(a)) < Code(Head(b))
    ELSE LexLess(Tail(a), Tail(b))

\* Listings of at most MaxDevices distinct names, in any order (glob).
Listings ==
    UNION {{l \in [1..n -> Names] :
              \A a, b \in 1..n : a # b => l[a] # l[b]} : n \in 0..MaxDevices}

\* Listings in the order an S3 listing returns them.
S3Listings ==
    {l \in Listings :
        \A k \in 1..(Len(l) - 1) : LexLess(KeyTail(l[k]), KeyTail(l[k + 1]))}

\* ------------------------------------------------------------- load_data
DataOf(f) == [kind |-> f.dkind, freq |-> f.freq, age |-> f.age]

BoundsOf(f) == [kind |-> f.bkind, min |-> f.min, max |-> f.max]

Loaded(d, b, e) == [data |-> d, bounds |-> b, errs |-> e]

\* load_s3_data(device_num): st.error calls made inside it go to the main
\* container, because it is called outside any "with cols[i]" block.
load_s3_data(f) ==
    IF f.dkind = "absent" THEN Loaded(None, None, <<>>)
    ELSE IF f.dkind = "unreachable" THEN Loaded(None, None, <<"err_load">>)
    ELSE IF f.dkind = "malformed" THEN Loaded(None, None, <<"err_load">>)
    ELSE IF f.bkind \in {"absent", "unreachable"}
         THEN Loaded(DataOf(f), None, <<>>)
    ELSE IF f.bkind = "malformed" THEN Loaded(None, None, <<"err_load">>)
    ELSE Loaded(DataOf(f), BoundsOf(f), <<>>)

\* load_data with the sample file missing returning the bounds it could read.
load_local_keepbounds(f) ==
    IF f.dkind = "absent"
    THEN Loaded(None, IF f.bkind = "ok" THEN BoundsOf(f) ELSE None, <<>>)
    ELSE IF f.dkind \in {"unreachable", "malformed"}
         THEN Loaded(None, None, <<"err_load">>)
    ELSE IF f.bkind = "absent" THEN Loaded(DataOf(f), None, <<>>)
    ELSE IF f.bkind \in {"unreachable", "malformed"}
         THEN Loaded(None, None, <<"err_load">>)
    ELSE Loaded(DataOf(f), BoundsOf(f), <<>>)

\* load_data with a missing bounds file replaced by a default record.
load_local_defaultbounds(f) ==
    IF f.dkind = "absent" THEN Loaded(None, None, <<>>)
    ELSE IF f.dkind \in {"unreachable", "malformed"}
         THEN Loaded(None, None, <<"err_load">>)
    ELSE IF f.bkind = "absent"
         THEN Loaded(DataOf(f), [kind |-> "ok", min |-> 0, max |-> 0], <<>>)
    ELSE IF f.bkind \in {"unreachable", "malformed"}
         THEN Loaded(None, None, <<"err_load">>)
    ELSE Loaded(DataOf(f), BoundsOf(f), <<>>)

\* The local branch of load_data(device_num).
load_local(f) ==
    IF f.dkind = "absent" THEN Loaded(None, None, <<>>)
    ELSE IF f.dkind \in {"unreachable", "malformed"}
         THEN Loaded(None, None, <<"err_load">>)
    ELSE IF f.bkind = "absent" THEN Loaded(DataOf(f), None, <<>>)
    ELSE IF f.bkind \in {"unreachable", "malformed"}
         THEN Loaded(None, None, <<"err_load">>)
    ELSE Loaded(DataOf(f), BoundsOf(f), <<>>)

load_data(s3, f) == IF s3 THEN load_s3_data(f) ELSE load_local(f)

\* ----------------------------------------------------- per-device render
\* create_plot(data, bounds, device_num): "raise" when a column or the first
\* bounds row it indexes is missing, "chart" otherwise.
create_plot(data, bounds) ==
    IF data.kind = "nofreq" \/ data.kind = "nofiltered" THEN "raise"
    ELSE IF bounds # None /\ bounds.kind = "empty" THEN "raise"
    ELSE "chart"

freq_out_of_bounds_nonstrict(current_freq, min_freq, max_freq) ==
    current_freq <= min_freq \/ current_freq >= max_freq

\* freq_out_of_bounds = current_freq < min_freq or current_freq > max_freq
freq_out_of_bounds(current_freq, min_freq, max_freq) ==
    current_freq < min_freq \/ current_freq > max_freq

\* delay_too_large = delay > delay_threshold
delay_too_large(delay, threshold) == delay > threshold

PlayAlways(ae) == TRUE

\* if len(audio_elements) == 0: # Only play audio once
PlayAudio(ae) == Len(ae) = 0

If(c, s) == IF c THEN s ELSE <<>>

Region(it, ae) == [items |-> it, audio |-> ae]

\* The body of the device loop after load_data: the elements written to
\* cols[i] and the new value of audio_elements.
RenderDevice(data, bounds, ae, threshold, dev) ==
    IF data = None \/ data.kind = "empty"
    THEN Region(<<"warn_nodata">>, ae)
    ELSE IF data.kind = "nofiltered" THEN Region(<<"err_proc">>, ae)
    ELSE IF bounds = None \/ bounds.kind \in {"empty", "notz"}
         THEN Region(<<"err_proc">>, ae)
    ELSE
      LET check == bounds # None /\ bounds.kind # "empty"
          out   == freq_out_of_bounds(data.freq, bounds.min, bounds.max)
          late  == delay_too_large(data.age, threshold)
          play  == check /\ (out \/ late) /\ PlayAudio(ae)
          banners ==
              IF ~check THEN <<>>
              ELSE IF out \/ late
                   THEN If(out, <<"err_freq">>) \o If(late, <<"err_delay">>)
                        \o If(play, <<"audio">>)
                   ELSE <<"success">>
          plot == IF create_plot(data, bounds) = "raise"
                  THEN <<"err_proc">> ELSE <<"chart">>
      IN Region(<<"metrics">> \o banners \o plot,
                IF play THEN Append(ae, dev) ELSE ae)

NeverEmpty(dn) == FALSE

\* if not device_numbers:
NoDevices(dn) == Len(dn) = 0

\* ------------------------------------------------------------------ state
VARIABLES
    pc,              \* position in the script
    use_s3,          \* sidebar checkbox
    delay_threshold, \* sidebar slider
    listing,         \* names returned by glob / list_objects_v2 this cycle
    fault,           \* kind of fault met during discovery this cycle
    device_numbers,  \* parsed device identifiers, in listing order
    i,               \* loop index into device_numbers
    loaded,          \* (data, bounds) returned by load_data for device i
    audio_elements,  \* devices that started the looping audio cue
    main,            \* elements written to the main container
    cols,            \* elements written to each device column
    files,           \* files as found for each device loaded this cycle
    prevCue          \* an earlier cycle started an audio cue

vars == <<pc, use_s3, delay_threshold, listing, fault, device_numbers, i,
          loaded, audio_elements, main, cols, files, prevCue>>

NoLoad == [data |-> None, bounds |-> None]

TypeOK ==
    /\ pc \in {"start", "discover", "layout", "load", "render", "sleep",
               "rerun", "ended", "crashed"}
    /\ use_s3 \in BOOLEAN
    /\ delay_threshold \in Thresholds
    /\ listing \in Listings
    /\ fault \in {"none", "client", "list", "parse"}
    /\ i \in 0..(MaxDevices + 1)

Init ==
    /\ pc = "start"
    /\ use_s3 = FALSE
    /\ delay_threshold = 60
    /\ listing = <<>>
    /\ fault = "none"
    /\ device_numbers = <<>>
    /\ i = 0
    /\ loaded = NoLoad
    /\ audio_elements = <<>>
    /\ main = <<>>
    /\ cols = <<>>
    /\ files = <<>>
    /\ prevCue = FALSE

\* The page and every script variable as a fresh run of the script finds them.
FreshRun ==
    /\ listing' = <<>>
    /\ fault' = "none"
    /\ device_numbers' = <<>>
    /\ i' = 0
    /\ loaded' = NoLoad
    /\ audio_elements' = <<>>
    /\ main' = <<>>
    /\ cols' = <<>>
    /\ files' = <<>>

\* Top of the script: the sidebar widgets are read.
ReadWidgets ==
    /\ pc = "start"
    /\ \E s \in BOOLEAN, t \in Thresholds :
          /\ use_s3' = s
          /\ delay_threshold' = t
    /\ pc' = "discover"
    /\ UNCHANGED <<listing, fault, device_numbers, i, loaded, audio_elements,
                   main, cols, files, prevCue>>

\* Device discovery in local mode: glob and an unguarded int() per name.
DiscoverLocal ==
    /\ pc = "discover"
    /\ ~use_s3
    /\ \E l \in Listings :
          /\ listing' = l
          /\ IF AllParse(l)
             THEN /\ device_numbers' = ParseAll(l)
                  /\ fault' = "none"
                  /\ main' = main
                  /\ pc' = "layout"
             ELSE /\ device_numbers' = <<>>
                  /\ fault' = "parse"
                  /\ main' = Append(main, "exception")
                  /\ pc' = "crashed"
    /\ UNCHANGED <<use_s3, delay_threshold, i, loaded, audio_elements, cols,
                   files, prevCue>>

\* Device discovery in S3 mode: no client, or listing and parsing in a try.
DiscoverS3 ==
    /\ pc = "discover"
    /\ use_s3
    /\ \/ /\ listing' = <<>>
          /\ fault' = "client"
          /\ device_numbers' = <<>>
          /\ main' = Append(main, "err_client")
       \/ /\ listing' = <<>>
          /\ fault' = "list"
          /\ device_numbers' = <<>>
          /\ main' = Append(main, "err_list")
       \/ \E l \in S3Listings :
             /\ listing' = l
             /\ IF AllParse(l)
                THEN /\ device_numbers' = ParseAll(l)
                     /\ fault' = "none"
                     /\ main' = main
                ELSE /\ device_numbers' = <<>>
                     /\ fault' = "parse"
                     /\ main' = Append(main, "err_list")
    /\ pc' = "layout"
    /\ UNCHANGED <<use_s3, delay_threshold, i, loaded, audio_elements, cols,
                   files, prevCue>>

\* audio_elements = []; warning when there are no devices, else st.columns.
Layout ==
    /\ pc = "layout"
    /\ audio_elements' = <<>>
    /\ IF NoDevices(device_numbers)
       THEN /\ main' = Append(main, "warn_nodevice")
            /\ cols' = cols
            /\ i' = i
            /\ pc' = "ended"
       ELSE /\ main' = main
            /\ cols' = [k \in 1..Len(device_numbers) |-> <<>>]
            /\ i' = 1
            /\ pc' = "load"
    /\ UNCHANGED <<use_s3, delay_threshold, listing, fault, device_numbers,
                   loaded, files, prevCue>>

\* data, bounds = load_data(device_num)
LoadDevice ==
    /\ pc = "load"
    /\ \E f \in DeviceFiles :
          LET r == load_data(use_s3, f)
          IN /\ loaded' = [data |-> r.data, bounds |-> r.bounds]
             /\ main' = main \o r.errs
             /\ files' = Append(files, f)
    /\ pc' = "render"
    /\ UNCHANGED <<use_s3, delay_threshold, listing, fault, device_numbers, i,
                   audio_elements, cols, prevCue>>

\* The rest of the loop body for device i, then the next device or the sleep.
\* load_data catches every exception it meets and the inner try catches every
\* exception of the rendering, so the outer handler (lines 283-285) is never
\* entered and writes nothing.
Render ==
    /\ pc = "render"
    /\ LET r == RenderDevice(loaded.data, loaded.bounds, audio_elements,
                             delay_threshold, device_numbers[i])
       IN /\ cols' = [cols EXCEPT ![i] = r.items]
          /\ audio_elements' = r.audio
    /\ loaded' = NoLoad
    /\ i' = i + 1
    /\ pc' = IF i >= Len(device_numbers) THEN "sleep" ELSE "load"
    /\ UNCHANGED <<use_s3, delay_threshold, listing, fault, device_numbers,
                   main, files, prevCue>>

\* time.sleep(refresh_interval)
Sleep ==
    /\ pc = "sleep"
    /\ pc' = "rerun"
    /\ UNCHANGED <<use_s3, delay_threshold, listing, fault, device_numbers, i,
                   loaded, audio_elements, main, cols, files, prevCue>>

\* st.rerun(): the script starts again from the top with a cleared page.
Rerun ==
    /\ pc = "rerun"
    /\ pc' = "start"
    /\ prevCue' = (prevCue \/ Len(audio_elements) > 0)
    /\ FreshRun
    /\ UNCHANGED <<use_s3, delay_threshold>>

\* A run that ended without st.rerun() starts again only when the user
\* touches a widget.
WidgetChange ==
    /\ pc \in {"ended", "crashed"}
    /\ pc' = "start"
    /\ FreshRun
    /\ UNCHANGED <<use_s3, delay_threshold, prevCue>>

Next ==
    \/ ReadWidgets
    \/ DiscoverLocal
    \/ DiscoverS3
    \/ Layout
    \/ LoadDevice
    \/ Render
    \/ Sleep
    \/ Rerun
    \/ WidgetChange

Spec == Init /\ [][Next]_vars

\* ---------------------------------------------------------------- helpers
Has(s, x) == \E k \in 1..Len(s) : s[k] = x

Count(s, x) == Cardinality({k \in 1..Len(s) : s[k] = x})

Errors == {"err_proc", "err_load", "err_device", "err_list", "err_client",
           "exception"}

HasError(s) == \E k \in 1..Len(s) : s[k] \in Errors

\* Indices of the devices whose column has been rendered in this cycle.
Done == 1..(i - 1)

\* Device k shows an alert banner.
Alerting(k) == Has(cols[k], "err_freq") \/ Has(cols[k], "err_delay")

AlertingSet == {k \in Done : Alerting(k)}

CycleDone == pc \in {"sleep", "rerun"}

\* ------------------------------------------------------------------ claims

\* C1: every run of the script reaches the sleep-and-restart step, whatever
\* the discovered device set (the empty set included) and whatever faults
\* occur: no run that discovered a device set reaches the end of the script
\* without having slept and called st.rerun().
C1_EveryCycleSleeps == pc # "ended"

\* C2: in a cycle in which at least one rendered device is alerting, the
\* looping audio cue is started exactly once, by the first alerting device in
\* processing order, whether or not an earlier cycle started a cue.
C2_AudioOncePerCycle ==
    (CycleDone /\ AlertingSet # {}) =>
        LET first == CHOOSE k \in AlertingSet : \A j \in AlertingSet : k <= j
        IN /\ Cardinality({k \in Done : Has(cols[k], "audio")}) = 1
           /\ \A k \in Done : Count(cols[k], "audio") <= 1
           /\ Has(cols[first], "audio")
           /\ audio_elements = <<device_numbers[first]>>

C2_Witness ==
    /\ CycleDone
    /\ prevCue
    /\ Cardinality(AlertingSet) >= 2
    /\ Has(cols[1], "audio")

\* C3: a device with a non-empty sample window and no Bounds Record is shown
\* in silent degraded mode: its metrics and its chart are rendered and no
\* error is shown for it.
C3_SilentDegradedMode ==
    \A k \in Done :
        (files[k].dkind = "ok" /\ files[k].bkind = "absent") =>
            /\ Has(cols[k], "metrics")
            /\ Has(cols[k], "chart")
            /\ ~HasError(cols[k])

\* C4: a device whose Bounds Record is absent shows no alert banner and
\* starts no audio cue, for every frequency value and every delay.
C4_NoAlertWithoutBounds ==
    \A k \in Done :
        files[k].bkind = "absent" =>
            /\ ~Has(cols[k], "err_freq")
            /\ ~Has(cols[k], "err_delay")
            /\ ~Has(cols[k], "audio")
            /\ ~Has(audio_elements, device_numbers[k])

C4_Witness ==
    /\ CycleDone
    /\ \E k \in Done :
          /\ files[k].dkind = "ok"
          /\ files[k].bkind = "absent"
          /\ files[k].freq = 3
          /\ files[k].age > delay_threshold

\* C5: in local and in remote mode, a fault while listing the sources or
\* parsing a device identifier yields an empty device set and a visible
\* error, and the cycle continues.
C5_DiscoveryNeverCrashes ==
    (pc # "discover" /\ fault # "none") =>
        /\ pc # "crashed"
        /\ device_numbers = <<>>
        /\ HasError(main)
        /\ ~Has(main, "exception")

\* C6: a fault while loading or processing one device is shown as an error
\* inside that device's own column only, the cycle is not aborted, and every
\* device gets its column rendered.
Faulted(f) ==
    \/ f.dkind \in {"unreachable", "malformed", "nofiltered", "nofreq"}
    \/ /\ f.dkind = "ok"
       /\ \/ f.bkind \in {"malformed", "empty", "notz"}
          \/ f.bkind = "unreachable" /\ ~use_s3

C6_FaultInOwnRegionOnly ==
    CycleDone =>
        /\ \A k \in Done : Len(cols[k]) > 0
        /\ \A k \in Done : Faulted(files[k]) => HasError(cols[k])
        /\ ~HasError(main)

\* C7 (as stated): in local mode, with the sample file absent and the bounds
\* file present, load_data returns (absent, <bounds>).
C7_AbsentDataKeepsBounds ==
    (pc = "render" /\ ~use_s3
        /\ files[i].dkind = "absent" /\ files[i].bkind = "ok") =>
        /\ loaded.data = None
        /\ loaded.bounds = BoundsOf(files[i])

\* C7 (amended): in local mode, with the sample file absent and the bounds
\* file present, load_data returns (absent, absent): the bounds file is not
\* read.
C7_AbsentDataAbsentBounds ==
    (pc = "render" /\ ~use_s3
        /\ files[i].dkind = "absent" /\ files[i].bkind = "ok") =>
        /\ loaded.data = None
        /\ loaded.bounds = None

C7_Witness ==
    /\ pc = "render"
    /\ ~use_s3
    /\ files[i].dkind = "absent"
    /\ files[i].bkind = "ok"

\* C8: when the discovered device set is empty, the cycle shows exactly one
\* warning, creates no device column, loads no device data and starts no
\* audio cue.
C8_EmptySetOneWarning ==
    (device_numbers = <<>> /\ pc \notin {"start", "discover", "layout",
                                         "crashed"}) =>
        /\ pc = "ended"
        /\ Count(main, "warn_nodevice") = 1
        /\ Count(main, "warn_nodata") = 0
        /\ cols = <<>>
        /\ files = <<>>
        /\ loaded = NoLoad
        /\ audio_elements = <<>>

C8_Witness ==
    /\ pc = "ended"
    /\ device_numbers = <<>>
    /\ fault = "none"
    /\ main = <<"warn_nodevice">>

\* C9: within one cycle the devices are processed, and assigned to columns,
\* in strictly increasing device-identifier order, whatever order the glob or
\* the object-store listing returns their names in.
C9_IncreasingDeviceOrder ==
    \A a, b \in 1..Len(device_numbers) :
        a < b => device_numbers[a] < device_numbers[b]

\* C10: for a device with non-empty data and a Bounds Record, the frequency
\* banner is shown exactly when the latest filtered value is < min or > max,
\* the delay banner exactly when delay > threshold, and the success banner
\* exactly when neither holds.
C10_AlertDecision ==
    \A k \in Done :
        (files[k].dkind = "ok" /\ files[k].bkind = "ok") =>
            LET f == files[k]
                out  == f.freq < f.min \/ f.freq > f.max
                late == f.age > delay_threshold
            IN /\ Has(cols[k], "err_freq") <=> out
               /\ Has(cols[k], "err_delay") <=> late
               /\ Has(cols[k], "success") <=> (~out /\ ~late)
               /\ Has(cols[k], "metrics")

C10_Witness ==
    /\ CycleDone
    /\ \E k, j \in Done :
          /\ files[k].dkind = "ok" /\ files[k].bkind = "ok"
          /\ files[k].freq = files[k].max
          /\ files[k].freq = files[k].min
          /\ files[k].age = delay_threshold
          /\ Has(cols[k], "success")
          /\ files[j].dkind = "ok" /\ files[j].bkind = "ok"
          /\ files[j].freq > files[j].max
          /\ files[j].age > delay_threshold
          /\ Has(cols[j], "err_freq")
          /\ Has(cols[j], "err_delay")

====
